---- MODULE Spec2Model ----
(***************************************************************************)
(* Model of the YouTube video trimmer service (src/main.py): the trim      *)
(* endpoint trim_video, the time parser time_to_seconds, the metadata      *)
(* probe get_video_info, the orchestrator download_and_trim_video and the  *)
(* retention pass over the output directory.                               *)
(*                                                                         *)
(* Strings are sequences of one-character strings.  The output directory   *)
(* is a sequence of file names ordered by ascending ctime; a file name is  *)
(* the second its timestamp suffix encodes.  Requests are interleaved at   *)
(* the granularity of the external tool and filesystem calls, as they are  *)
(* when several workers serve the application over one temp directory.     *)
(***************************************************************************)
EXTENDS Integers, Sequences, FiniteSets, TLC

\* ------------------------------------------------------------ strings

Digits == <<"0", "1", "2", "3", "4", "5", "6", "7", "8", "9">>

IsDigit(c) == \E i \in 1..Len(Digits) : Digits[i] = c

DigitVal(c) == (CHOOSE i \in 1..Len(Digits) : Digits[i] = c) - 1

RECURSIVE SplitFrom(_, _, _)
\* str.split(':') continued: cur is the field being read, s the rest.
SplitFrom(s, sep, cur) ==
  IF s = <<>> THEN <<cur>>
  ELSE IF Head(s) = sep THEN <<cur>> \o SplitFrom(Tail(s), sep, <<>>)
  ELSE SplitFrom(Tail(s), sep, Append(cur, Head(s)))

\* str.split(sep): always at least one field, empty fields kept.
Split(s, sep) == SplitFrom(s, sep, <<>>)

RECURSIVE LStrip(_)
LStrip(s) == IF s # <<>> /\ Head(s) = " " THEN LStrip(Tail(s)) ELSE s

RECURSIVE RStrip(_)
RStrip(s) ==
  IF s # <<>> /\ s[Len(s)] = " " THEN RStrip(SubSeq(s, 1, Len(s) - 1)) ELSE s

\* int() ignores surrounding whitespace.
Strip(s) == RStrip(LStrip(s))

\* int() takes one optional sign.
Unsigned(s) ==
  IF s # <<>> /\ Head(s) \in {"+", "-"} THEN Tail(s) ELSE s

\* The digits of an int() literal: decimal digits, single underscores
\* allowed between two digits.
IsIntBody(b) ==
  /\ b # <<>>
  /\ IsDigit(b[1])
  /\ IsDigit(b[Len(b)])
  /\ \A i \in 1..Len(b) : IsDigit(b[i]) \/ b[i] = "_"
  /\ \A i \in 1..(Len(b) - 1) : ~(b[i] = "_" /\ b[i + 1] = "_")

RECURSIVE DecValue(_, _)
DecValue(b, acc) ==
  IF b = <<>> THEN acc
  ELSE IF Head(b) = "_" THEN DecValue(Tail(b), acc)
  ELSE DecValue(Tail(b), acc * 10 + DigitVal(Head(b)))

ValueError == [ok |-> FALSE, val |-> 0]

Value(n) == [ok |-> TRUE, val |-> n]

\* Python's int(str): a ValueError, or the value.
IntOf(field) ==
  LET t == Strip(field)
      b == Unsigned(t)
  IN  IF ~IsIntBody(b) THEN ValueError
      ELSE IF t # <<>> /\ Head(t) = "-" THEN Value(0 - DecValue(b, 0))
      ELSE Value(DecValue(b, 0))

\* h, m, s = map(int, time_str.split(':')); return h*3600 + m*60 + s.
\* Unpacking other than three values raises ValueError, as int() does.
time_to_seconds(time_str) ==
  LET parts == Split(time_str, ":")
  IN  IF Len(parts) # 3 THEN ValueError
      ELSE LET h == IntOf(parts[1])
               m == IntOf(parts[2])
               s == IntOf(parts[3])
           IN  IF h.ok /\ m.ok /\ s.ok
               THEN Value(h.val * 3600 + m.val * 60 + s.val)
               ELSE ValueError

\* ------------------------------------------------------------ bounds

\* Request slots (workers) served side by side.
NumReq == 2

\* Entries of the output directory when the service starts over a used one.
MaxInit == 10

\* Seconds the wall clock may advance while requests of every kind run.
MaxSec == 1

\* Seconds the wall clock may advance in the failure-free runs of SpecSteady.
SteadySec == 10

\* files[:-10]: the retention pass keeps the ten newest entries.
Keep == 10

Procs == 1..NumReq

\* tempfile's name space for scoped directories: one name per slot.
TmpNames == 1..NumReq

\* The second the wall clock reads at start; earlier seconds name the
\* entries already in the output directory.
FirstSec == MaxInit + 1

\* output_path / temp_dir not assigned yet.
NoPath == 0

NoTmp == 0

NoDuration == 0 - 1

Str(a, b, c) == <<a[1], a[2], ":", b[1], b[2], ":", c[1], c[2]>>

T1 == Str(<<"0", "0">>, <<"0", "0">>, <<"0", "1">>)

T3 == Str(<<"0", "0">>, <<"0", "0">>, <<"0", "3">>)

TShort == <<"1", ":", "2">>

\* start_time / end_time of the requests of Spec.
TimeInputs == {T1, T3, TShort}

\* What the metadata probe reports: a duration in seconds, no duration
\* (info['duration'] is None), or a failure of the extraction.
Durations == {2, 3}

ProbeOutcomes ==
  {[st |-> "ok", d |-> x] : x \in Durations}
    \cup {[st |-> "error", d |-> 0], [st |-> "none", d |-> 0]}

DownloadOutcomes == {"ok", "error", "nofile"}

FfmpegOutcomes == {"ok", "error", "partial"}

VARIABLES
  now,          \* wall clock, in seconds (datetime.now())
  stamped,      \* some request has read the clock in this second
  outdir,       \* <tmp>/video-trimmer: file names, oldest ctime first
  partial,      \* files of outdir holding an incomplete ffmpeg output
  tmp,          \* scoped temporary directories: name -> contents
  pc,           \* where each request is in trim_video
  start_time, end_time, duration,
  output_path, temp_dir,
  listing,      \* os.listdir(output_dir) of the retention pass
  pending,      \* files[:-10] still to be removed
  result,       \* the response of the request
  invoked,      \* orchestrator and external tools the request has invoked
  tool_error,   \* the step of the orchestrator that failed
  trim,         \* ss and t handed to ffmpeg
  solo,         \* <<outdir at the start>> of a request no other has run
                \* beside so far, <<>> otherwise
  served,       \* output_path existed when the FileResponse was built
  tinput,       \* argument of time_to_seconds (SpecTime)
  tresult       \* its result, once applied

vars == <<now, stamped, outdir, partial, tmp, pc, start_time, end_time,
          duration, output_path, temp_dir, listing, pending, result, invoked,
          tool_error, trim, solo, served, tinput, tresult>>

reqvars == <<pc, start_time, end_time, duration, output_path, temp_dir,
             listing, pending, result, invoked, tool_error, trim, solo,
             served>>

Range(s) == {s[i] : i \in 1..Len(s)}

Min(a, b) == IF a < b THEN a ELSE b

Without(s, f) == SelectSeq(s, LAMBDA x : x # f)

\* A file is created or rewritten: its ctime becomes the newest.
Write(dir, f) == Append(Without(dir, f), f)

\* sorted(names, key=getctime)
SortedByCtime(dir, names) == SelectSeq(dir, LAMBDA x : x \in names)

\* files[:-10]
Stale(files) ==
  IF Len(files) > Keep THEN SubSeq(files, 1, Len(files) - Keep) ELSE <<>>

\* The duration check with its bound off by one.
DurationExceeded_OffByOne(end_seconds, d) == end_seconds > d + 1

\* if end_seconds > video_info['duration']
DurationExceeded(end_seconds, d) == end_seconds > d

\* The range check letting an empty range through.
RangeInvalid_Strict(start_seconds, end_seconds) == start_seconds > end_seconds

\* if start_seconds >= end_seconds
RangeInvalid(start_seconds, end_seconds) == start_seconds >= end_seconds

\* A directory made with mkdtemp and never removed.
Cleanup_Leak(t, d) == t

\* TemporaryDirectory.__exit__: the directory and its contents are removed.
Cleanup(t, d) == [t EXCEPT ![d] = "absent"]

Running(p) == pc[p] \notin {"idle", "done"}

InCall(p) == pc[p] \in {"downloading", "downloaded"}

NoResult == [code |-> 0, detail |-> ""]

Response(code, detail) == [code |-> code, detail |-> detail]

NoTrim == [run |-> FALSE, ss |-> 0, t |-> 0]

\* ------------------------------------------------------------ trim_video

\* The request ends with a response before any file is touched.
Answer(p, st, et, d, tools, r) ==
  /\ pc' = [pc EXCEPT ![p] = "done"]
  /\ start_time' = [start_time EXCEPT ![p] = st]
  /\ end_time' = [end_time EXCEPT ![p] = et]
  /\ duration' = [duration EXCEPT ![p] = d]
  /\ invoked' = [invoked EXCEPT ![p] = tools]
  /\ result' = [result EXCEPT ![p] = r]
  /\ UNCHANGED <<now, stamped, output_path, solo>>

\* Lines 44-68: parse the times, probe the metadata, validate, and derive
\* the output path from the clock.
Start(p, st, et, probe) ==
  /\ pc[p] = "idle"
  /\ LET s == time_to_seconds(st)
         e == time_to_seconds(et)
     IN  IF ~(s.ok /\ e.ok)
         THEN Answer(p, st, et, NoDuration, {},
                     Response(400, "Invalid time format. Use HH:MM:SS"))
         ELSE IF probe.st = "error"
         THEN Answer(p, st, et, NoDuration, {"probe"},
                     Response(400, "Error fetching video info"))
         ELSE IF probe.st = "none"
         THEN \* end_seconds > None raises TypeError
              Answer(p, st, et, NoDuration, {"probe"},
                     Response(500, "Internal Server Error"))
         ELSE IF DurationExceeded(e.val, probe.d)
         THEN Answer(p, st, et, probe.d, {"probe"},
                     Response(400, "End time exceeds video duration"))
         ELSE IF RangeInvalid(s.val, e.val)
         THEN Answer(p, st, et, probe.d, {"probe"},
                     Response(400, "Start time must be before end time"))
         ELSE /\ pc' = [pc EXCEPT ![p] = "validated"]
              /\ start_time' = [start_time EXCEPT ![p] = st]
              /\ end_time' = [end_time EXCEPT ![p] = et]
              /\ duration' = [duration EXCEPT ![p] = probe.d]
              /\ invoked' = [invoked EXCEPT ![p] = {"probe"}]
              /\ output_path' = [output_path EXCEPT ![p] = now]
              /\ stamped' = TRUE
              /\ solo' = [q \in Procs |->
                            IF q = p /\ \A r \in Procs \ {p} : ~Running(r)
                            THEN <<outdir>> ELSE <<>>]
              /\ UNCHANGED <<now, result>>
  /\ UNCHANGED <<outdir, partial, tmp, temp_dir, listing, pending,
                 tool_error, trim, served, tinput, tresult>>

\* Line 133: with tempfile.TemporaryDirectory() as temp_dir.
Mkdtemp(p) ==
  /\ pc[p] = "validated"
  /\ \E d \in TmpNames :
       /\ tmp[d] = "absent"
       /\ tmp' = [tmp EXCEPT ![d] = "empty"]
       /\ temp_dir' = [temp_dir EXCEPT ![p] = d]
  /\ pc' = [pc EXCEPT ![p] = "downloading"]
  /\ invoked' = [invoked EXCEPT ![p] = @ \cup {"orchestrator"}]
  /\ UNCHANGED <<now, stamped, outdir, partial, start_time, end_time,
                 duration, output_path, listing, pending, result,
                 tool_error, trim, solo, served, tinput, tresult>>

\* Lines 205-206 and the exit of the with block: the failure becomes a 500
\* and the scoped directory is removed.
Fail(p, step) ==
  /\ pc' = [pc EXCEPT ![p] = "done"]
  /\ tool_error' = [tool_error EXCEPT ![p] = step]
  /\ result' = [result EXCEPT ![p] = Response(500, "Error processing video")]
  /\ tmp' = Cleanup(tmp, temp_dir[p])

\* Lines 178-186: run the download, then look for 'video.*'.
Download(p, outcome) ==
  /\ pc[p] = "downloading"
  /\ invoked' = [invoked EXCEPT ![p] = @ \cup {"download"}]
  /\ CASE outcome = "ok" ->
            /\ tmp' = [tmp EXCEPT ![temp_dir[p]] = "video"]
            /\ pc' = [pc EXCEPT ![p] = "downloaded"]
            /\ UNCHANGED <<result, tool_error>>
       [] outcome = "error" -> Fail(p, "download")
       [] outcome = "nofile" -> Fail(p, "missing")
  /\ UNCHANGED <<now, stamped, outdir, partial, start_time, end_time,
                 duration, output_path, temp_dir, listing, pending, trim,
                 solo, served, tinput, tresult>>

\* Lines 188-203: convert the times, run ffmpeg onto output_path, leave the
\* with block.
Trim(p, outcome) ==
  /\ pc[p] = "downloaded"
  /\ LET s == time_to_seconds(start_time[p])
         e == time_to_seconds(end_time[p])
         f == output_path[p]
     IN  IF ~(s.ok /\ e.ok)
         THEN /\ Fail(p, "time")
              /\ UNCHANGED <<outdir, partial, invoked, trim>>
         ELSE /\ invoked' = [invoked EXCEPT ![p] = @ \cup {"ffmpeg"}]
              /\ trim' = [trim EXCEPT ![p] =
                            [run |-> TRUE, ss |-> s.val, t |-> e.val - s.val]]
              /\ CASE outcome = "ok" ->
                        /\ outdir' = Write(outdir, f)
                        /\ partial' = partial \ {f}
                        /\ tmp' = Cleanup(tmp, temp_dir[p])
                        /\ pc' = [pc EXCEPT ![p] = "trimmed"]
                        /\ UNCHANGED <<result, tool_error>>
                   [] outcome = "error" ->
                        /\ Fail(p, "ffmpeg")
                        /\ UNCHANGED <<outdir, partial>>
                   [] outcome = "partial" ->
                        /\ Fail(p, "ffmpeg")
                        /\ outdir' = Write(outdir, f)
                        /\ partial' = partial \cup {f}
  /\ UNCHANGED <<now, stamped, start_time, end_time, duration, output_path,
                 temp_dir, listing, pending, solo, served, tinput,
                 tresult>>

\* Line 74, first half: os.listdir(output_dir).
List(p) ==
  /\ pc[p] = "trimmed"
  /\ listing' = [listing EXCEPT ![p] = Range(outdir)]
  /\ pc' = [pc EXCEPT ![p] = "listed"]
  /\ UNCHANGED <<now, stamped, outdir, partial, tmp, start_time, end_time,
                 duration, output_path, temp_dir, pending, result, invoked,
                 tool_error, trim, solo, served, tinput, tresult>>

\* Lines 74-76: sorted(..., key=getctime) and files[:-10].  getctime of a
\* listed file that is gone raises FileNotFoundError, outside any try.
Sort(p) ==
  /\ pc[p] = "listed"
  /\ IF listing[p] \subseteq Range(outdir)
     THEN /\ pending' = [pending EXCEPT ![p] =
                           Stale(SortedByCtime(outdir, listing[p]))]
          /\ pc' = [pc EXCEPT ![p] = "removing"]
          /\ UNCHANGED result
     ELSE /\ pc' = [pc EXCEPT ![p] = "done"]
          /\ result' = [result EXCEPT ![p] =
                          Response(500, "Internal Server Error")]
          /\ UNCHANGED pending
  /\ listing' = [listing EXCEPT ![p] = {}]
  /\ UNCHANGED <<now, stamped, outdir, partial, tmp, start_time, end_time,
                 duration, output_path, temp_dir, invoked, tool_error, trim,
                 solo, served, tinput, tresult>>

\* Lines 76-80: os.remove of the next stale file; a failure is swallowed.
Remove(p) ==
  /\ pc[p] = "removing"
  /\ pending[p] # <<>>
  /\ outdir' = Without(outdir, Head(pending[p]))
  /\ partial' = partial \ {Head(pending[p])}
  /\ pending' = [pending EXCEPT ![p] = Tail(@)]
  /\ UNCHANGED <<now, stamped, tmp, pc, start_time, end_time, duration,
                 output_path, temp_dir, listing, result, invoked, tool_error,
                 trim, solo, served, tinput, tresult>>

\* Lines 82-87: the FileResponse over output_path.
Respond(p) ==
  /\ pc[p] = "removing"
  /\ pending[p] = <<>>
  /\ served' = [served EXCEPT ![p] = output_path[p] \in Range(outdir)]
  /\ result' = [result EXCEPT ![p] = Response(200, "video/mp4")]
  /\ pc' = [pc EXCEPT ![p] = "done"]
  /\ UNCHANGED <<now, stamped, outdir, partial, tmp, start_time, end_time,
                 duration, output_path, temp_dir, listing, pending, invoked,
                 tool_error, trim, solo, tinput, tresult>>

\* The response has been sent; the slot takes the next request.
Done(p) ==
  /\ pc[p] = "done"
  /\ pc' = [pc EXCEPT ![p] = "idle"]
  /\ start_time' = [start_time EXCEPT ![p] = <<>>]
  /\ end_time' = [end_time EXCEPT ![p] = <<>>]
  /\ duration' = [duration EXCEPT ![p] = NoDuration]
  /\ output_path' = [output_path EXCEPT ![p] = NoPath]
  /\ temp_dir' = [temp_dir EXCEPT ![p] = NoTmp]
  /\ listing' = [listing EXCEPT ![p] = {}]
  /\ pending' = [pending EXCEPT ![p] = <<>>]
  /\ result' = [result EXCEPT ![p] = NoResult]
  /\ invoked' = [invoked EXCEPT ![p] = {}]
  /\ tool_error' = [tool_error EXCEPT ![p] = "none"]
  /\ trim' = [trim EXCEPT ![p] = NoTrim]
  /\ solo' = [solo EXCEPT ![p] = <<>>]
  /\ served' = [served EXCEPT ![p] = FALSE]
  /\ UNCHANGED <<now, stamped, outdir, partial, tmp, tinput, tresult>>

\* The wall clock reaches the next second.  Seconds in which no request
\* reads the clock leave no trace, so only stamped seconds are followed.
Tick(last) ==
  /\ stamped
  /\ now < last
  /\ now' = now + 1
  /\ stamped' = FALSE
  /\ UNCHANGED <<outdir, partial, tmp, reqvars, tinput, tresult>>

\* ------------------------------------------------------------ specifications

InitRequests ==
  /\ pc = [p \in Procs |-> "idle"]
  /\ start_time = [p \in Procs |-> <<>>]
  /\ end_time = [p \in Procs |-> <<>>]
  /\ duration = [p \in Procs |-> NoDuration]
  /\ output_path = [p \in Procs |-> NoPath]
  /\ temp_dir = [p \in Procs |-> NoTmp]
  /\ listing = [p \in Procs |-> {}]
  /\ pending = [p \in Procs |-> <<>>]
  /\ result = [p \in Procs |-> NoResult]
  /\ invoked = [p \in Procs |-> {}]
  /\ tool_error = [p \in Procs |-> "none"]
  /\ trim = [p \in Procs |-> NoTrim]
  /\ solo = [p \in Procs |-> <<>>]
  /\ served = [p \in Procs |-> FALSE]
  /\ tmp = [d \in TmpNames |-> "absent"]
  /\ partial = {}
  /\ now = FirstSec
  /\ stamped = FALSE

\* The service starts over an empty output directory, or over one holding
\* the outputs of the MaxInit seconds before, oldest first.
Init ==
  /\ InitRequests
  /\ \E n \in {0, MaxInit} : outdir = [i \in 1..n |-> FirstSec - 1 - n + i]
  /\ tinput = <<>>
  /\ tresult = <<>>

Next ==
  \/ \E p \in Procs, st \in TimeInputs, et \in TimeInputs,
        probe \in ProbeOutcomes : Start(p, st, et, probe)
  \/ \E p \in Procs : Mkdtemp(p)
  \/ \E p \in Procs, o \in DownloadOutcomes : Download(p, o)
  \/ \E p \in Procs, o \in FfmpegOutcomes : Trim(p, o)
  \/ \E p \in Procs : List(p)
  \/ \E p \in Procs : Sort(p)
  \/ \E p \in Procs : Remove(p)
  \/ \E p \in Procs : Respond(p)
  \/ \E p \in Procs : Done(p)
  \/ Tick(FirstSec + MaxSec)

Spec == Init /\ [][Next]_vars

\* Requests that pass validation, with tools that do not fail, over an
\* output directory that starts empty.  Slot 1 takes requests during the
\* first second only (and may be slow to finish the last of them); the
\* other slots take requests at any time.
InitSteady ==
  /\ InitRequests
  /\ outdir = <<>>
  /\ tinput = <<>>
  /\ tresult = <<>>

NextSteady ==
  \/ \E p \in Procs :
       /\ p = 1 => now = FirstSec
       /\ Start(p, T1, T3, [st |-> "ok", d |-> 3])
  \/ \E p \in Procs : Mkdtemp(p)
  \/ \E p \in Procs : Download(p, "ok")
  \/ \E p \in Procs : Trim(p, "ok")
  \/ \E p \in Procs : List(p)
  \/ \E p \in Procs : Sort(p)
  \/ \E p \in Procs : Remove(p)
  \/ \E p \in Procs : Respond(p)
  \/ \E p \in Procs : Done(p)
  \/ Tick(FirstSec + SteadySec)

SpecSteady == InitSteady /\ [][NextSteady]_vars

\* ------------------------------------------------------------ time parser

\* Most fields a time string of SpecTime is made of.
MaxFields == 4

TimeFields ==
  { <<>>, <<"0">>, <<"0", "0">>, <<"0", "1">>, <<"0", "2">>, <<"0", "3">>,
    <<"1">>, <<"2">>, <<"5", "9">>, <<"1", "0", "0">>,
    <<"a", "b">>, <<"c", "d">>, <<"e", "f">>,
    <<"-", "1">>, <<"+", "1">>, <<" ", "1">>, <<"1", "_", "0">> }

RECURSIVE Join(_)
Join(fs) ==
  IF Len(fs) = 1 THEN fs[1] ELSE fs[1] \o <<":">> \o Join(Tail(fs))

\* The strings of at most n fields.
TimeStrings(n) ==
  UNION { {Join(fs) : fs \in [1..k -> TimeFields]} : k \in 1..n }

InitTime ==
  /\ InitRequests
  /\ outdir = <<>>
  /\ tinput \in TimeStrings(MaxFields)
  /\ tresult = <<>>

\* time_to_seconds(tinput) is called.
Parse ==
  /\ tresult = <<>>
  /\ tresult' = <<time_to_seconds(tinput)>>
  /\ UNCHANGED <<now, stamped, outdir, partial, tmp, reqvars, tinput>>

SpecTime == InitTime /\ [][Parse]_vars

\* ------------------------------------------------------------ claims

WellFormed(p) ==
  time_to_seconds(start_time[p]).ok /\ time_to_seconds(end_time[p]).ok

StartSeconds(p) == time_to_seconds(start_time[p]).val

EndSeconds(p) == time_to_seconds(end_time[p]).val

Answered(p) == pc[p] = "done"

\* C1: a request with well-formed times and start_seconds >= end_seconds is
\* rejected with a 400 before any external tool (probe, download, ffmpeg)
\* has been invoked for it.
C1_RangeRejectedBeforeTools ==
  \A p \in Procs :
    (Answered(p) /\ WellFormed(p) /\ StartSeconds(p) >= EndSeconds(p))
      => (result[p].code = 400 /\ invoked[p] = {})

\* C2: a request whose end time exceeds the duration the probe reported is
\* answered 400; the orchestrator is never invoked for it, and it gets
\* neither an output path nor a temporary workspace.
C2_DurationExceededRejected ==
  \A p \in Procs :
    (pc[p] # "idle" /\ WellFormed(p) /\ duration[p] # NoDuration
       /\ EndSeconds(p) > duration[p])
      => /\ Answered(p)
         /\ result[p].code = 400
         /\ "orchestrator" \notin invoked[p]
         /\ output_path[p] = NoPath
         /\ temp_dir[p] = NoTmp

C2_Witness ==
  \E p \in Procs :
    /\ Answered(p)
    /\ WellFormed(p)
    /\ EndSeconds(p) = 3
    /\ duration[p] = 2
    /\ result[p] = Response(400, "End time exceeds video duration")

\* C3: after a successful trim beside which no other request ran, the
\* output directory holds min(n+1, 10) entries, n being its size before:
\* the newest of the n prior entries plus the new output.
C3_RetentionCount ==
  \A p \in Procs :
    (Answered(p) /\ result[p].code = 200 /\ solo[p] # <<>>)
      => LET all == Append(solo[p][1], output_path[p])
             k == Min(Len(all), Keep)
         IN  /\ Len(outdir) = k
             /\ outdir = SubSeq(all, Len(all) - k + 1, Len(all))

\* The same, for the requests whose output path names no prior entry.
RetentionCountFreshPath ==
  \A p \in Procs :
    (Answered(p) /\ result[p].code = 200 /\ solo[p] # <<>>
       /\ output_path[p] \notin Range(solo[p][1]))
      => LET all == Append(solo[p][1], output_path[p])
             k == Min(Len(all), Keep)
         IN  /\ Len(outdir) = k
             /\ outdir = SubSeq(all, Len(all) - k + 1, Len(all))

\* C4: every scoped temporary directory that exists belongs to a call of
\* download_and_trim_video that is still running, and no two running calls
\* share one.
C4_TempWorkspaceScoped ==
  /\ \A d \in TmpNames :
       tmp[d] # "absent" => \E p \in Procs : InCall(p) /\ temp_dir[p] = d
  /\ \A p, q \in Procs :
       (p # q /\ InCall(p) /\ InCall(q)) => temp_dir[p] # temp_dir[q]

C4_Witness ==
  \E p, q \in Procs :
    /\ Answered(p)
    /\ tool_error[p] = "ffmpeg"
    /\ temp_dir[p] # NoTmp
    /\ pc[q] = "downloaded"
    /\ tmp[temp_dir[q]] = "video"
    /\ \A d \in TmpNames \ {temp_dir[q]} : tmp[d] = "absent"

\* C5: when a tool fails inside download_and_trim_video the request is
\* answered 500 "Error processing video" and no incomplete file is left at
\* its output path.
C5_FailureLeavesNoPartial ==
  \A p \in Procs :
    tool_error[p] # "none"
      => /\ result[p] = Response(500, "Error processing video")
         /\ output_path[p] \notin partial

\* C6: two successful requests never have the same output path.
C6_DistinctOutputPaths ==
  \A p, q \in Procs :
    (p # q /\ result[p].code = 200 /\ result[q].code = 200)
      => output_path[p] # output_path[q]

\* Three non-empty fields of decimal digits, separated by two colons.
IsHMS(str) ==
  LET colons == {i \in 1..Len(str) : str[i] = ":"}
  IN  /\ Cardinality(colons) = 2
      /\ \A i \in 1..Len(str) : i \notin colons => IsDigit(str[i])
      /\ \A i \in colons : i # 1 /\ i # Len(str) /\ (i + 1) \notin colons

RECURSIVE Decimal(_)
Decimal(f) ==
  IF f = <<>> THEN 0
  ELSE 10 * Decimal(SubSeq(f, 1, Len(f) - 1)) + DigitVal(f[Len(f)])

HMSSeconds(str) ==
  LET i == CHOOSE x \in 1..Len(str) : str[x] = ":"
      j == CHOOSE x \in (i + 1)..Len(str) : str[x] = ":"
  IN  Decimal(SubSeq(str, 1, i - 1)) * 3600
        + Decimal(SubSeq(str, i + 1, j - 1)) * 60
        + Decimal(SubSeq(str, j + 1, Len(str)))

\* C7: time_to_seconds returns H*3600 + M*60 + S for three fields of
\* non-negative integers and fails (ValueError, answered 400) for every
\* other string.
C7_TimeParser ==
  tresult # <<>>
    => IF IsHMS(tinput) THEN tresult[1] = Value(HMSSeconds(tinput))
       ELSE tresult[1] = ValueError

\* C8: once download_and_trim_video has succeeded the request is answered
\* with its file response, whatever happens during the retention pass.
C8_RetentionNeverFails ==
  \A p \in Procs :
    (Answered(p) /\ "ffmpeg" \in invoked[p] /\ tool_error[p] = "none")
      => result[p].code = 200

\* C9: the orchestrator is only invoked with start_seconds < end_seconds
\* <= reported duration, and the duration it hands to ffmpeg is positive.
C9_OrchestratorBounds ==
  \A p \in Procs :
    /\ "orchestrator" \in invoked[p]
         => /\ WellFormed(p)
            /\ StartSeconds(p) < EndSeconds(p)
            /\ EndSeconds(p) <= duration[p]
    /\ trim[p].run => trim[p].t > 0

C9_Witness ==
  \E p \in Procs :
    /\ "ffmpeg" \in invoked[p]
    /\ trim[p] = [run |-> TRUE, ss |-> 1, t |-> 2]
    /\ duration[p] = 3

\* C10: the output file of a successful request is still in the output
\* directory when the request builds its file response.
C10_OutputPresentAtResponse ==
  \A p \in Procs : result[p].code = 200 => served[p]

====
